---- MODULE Spec2Model ----
(***************************************************************************)
(* Model of the skill-mentor frontend: the shared authentication-token     *)
(* cache (useSharedAuth, src/README.md), the role-gated route guards       *)
(* (ProtectedRoute, RoleBasedRoute), the admin pages and the redirects of  *)
(* the route tables.                                                       *)
(*                                                                         *)
(* Spec         : the token cache shared by several mounted hook instances.*)
(* SpecGuard    : one guard instance from mount to redirect or steady      *)
(*                state.                                                   *)
(* SpecSteps    : the token cache with its two-write handlers taken        *)
(*                statement by statement under run-to-completion           *)
(*                scheduling.                                              *)
(* SpecBookings : a bookings page, API-backed or mock, and its updates.    *)
(* SpecForms    : one submission of an admin form, await by await.         *)
(* SpecStatus   : one row of the bookings table.                           *)
(* SpecRouter   : the role-based redirects between the routes.             *)
(***************************************************************************)
EXTENDS Integers, Sequences, FiniteSets, TLC

(***************************************************************************)
(* Values of the JavaScript runtime.                                       *)
(***************************************************************************)
\* `null`, as stored in sharedToken / tokenExpiry and yielded by getToken
Null == -1
\* `undefined`, e.g. payload.exp of a payload without an exp claim
Undefined == -2
\* outcome of atob/JSON.parse throwing on the token's payload segment
Undecodable == -3
\* the empty string, the other falsy value a token string can take
EmptyToken == 0

(***************************************************************************)
(* Bounds of the model.                                                    *)
(***************************************************************************)
NumConsumers == 2
MaxInFlight == 1
MaxNow == 150

Consumers == 1..NumConsumers

\* the safety margin of isTokenValid, in seconds
Margin == 300

\* The instants (epoch seconds) at which the clock is observed.
Instants == {MaxNow - 1, MaxNow}

\* The tokens the identity provider can issue, given by what decoding their
\* payload segment yields: an exp claim, or a decoding error.
TokenClaims == <<450, Undecodable>>
Tokens == 1..Len(TokenClaims)

VARIABLES
    sharedToken,     \* module-level cache: the token, or Null
    tokenExpiry,     \* module-level cache: the expiry, Null or Undefined
    tokenListeners,  \* module-level set of registered listeners (by consumer)
    now,             \* Math.floor(Date.now() / 1000)
    mounted,         \* per consumer: "unmounted", "rendered", "subscribed"
    token,           \* per consumer: the hook's `token` state
    isLoading,       \* per consumer: the hook's `isLoading` state
    inflight,        \* per consumer: getSharedToken calls suspended at getToken
    last             \* the step just taken: what it was and what it returned

tokenVars == <<sharedToken, tokenExpiry, tokenListeners, now, mounted, token,
               isLoading, inflight, last>>

VARIABLES
    guardKind,     \* which guard component is mounted on the route
    requiredRole,  \* prop, or Omitted
    redirectTo,    \* prop, or Omitted
    isLoaded,      \* useUser().isLoaded
    user,          \* NoUser, or the signed-in user's role claim
    phase,         \* "mounting", "effectPending", "idle", "dirty", "left"
    view,          \* what the last render returned
    navigations,   \* navigate() calls made by this guard instance
    location       \* the router's current path

guardVars == <<guardKind, requiredRole, redirectTo, isLoaded, user, phase,
               view, navigations, location>>

VARIABLES
    running,       \* the consumer whose handler holds the UI thread, or 0
    pc,            \* where that handler stands between two cache writes
    newTokenLocal  \* the running refresh's local `newToken`

stepVars == <<running, pc, newTokenLocal>>

VARIABLES
    bookingsPage,  \* the mounted bookings page: kind ("api" or "mock"), its
                   \* `bookings` (booking id -> status), isLoading,
                   \* updatingBooking and toast state, and the
                   \* updateBookingStatus calls suspended at an await
    form,          \* the mounted admin form: kind, useUser()'s isLoaded and
                   \* user, the field values, and the running submission
                   \* (formData, pc, tokenTry, tokenCalls, loopIndex,
                   \* imageUrl, requests sent, toast, reset)
    row,           \* one row of the bookings table: booking.status, its
                   \* normalized value, the pill and the action cell
    router         \* the browser router: the route table in use, useUser()'s
                   \* isLoaded and user, the current path, the paths
                   \* visited under the current identity, and whether the
                   \* effect of the mounted element is still due

pageVars == <<bookingsPage, form, row, router>>

vars == <<tokenVars, guardVars, stepVars, pageVars>>

\* JavaScript truthiness of a token string / of an expiry
Truthy(v) == v \notin {Null, Undefined, EmptyToken}

\* JSON.parse(atob(newToken.split('.')[1])).exp, or Undecodable when it throws
PayloadExp(t) == TokenClaims[t]

\* isTokenValid without the safety margin
isTokenValidNoMargin(tok, expiry, t) ==
    IF ~Truthy(tok) \/ ~Truthy(expiry) THEN FALSE ELSE expiry > t

\* isTokenValid with a margin one second longer
isTokenValidStrict(tok, expiry, t) ==
    IF ~Truthy(tok) \/ ~Truthy(expiry) THEN FALSE ELSE expiry > (t + Margin + 1)

\* isTokenValid: false without a token or an expiry, else whether the
\* expiry lies more than Margin seconds after now
isTokenValid(tok, expiry, t) ==
    IF ~Truthy(tok) \/ ~Truthy(expiry) THEN FALSE ELSE expiry > (t + Margin)

\* a React state setter: a no-op once the component is unmounted
SetState(f, c, v) == IF mounted[c] = "unmounted" THEN f ELSE [f EXCEPT ![c] = v]

\* tokenListeners.forEach(listener => listener()), each listener doing
\* setToken(sharedToken) with the value the cache holds at that moment
notifyListeners(tk, cached) ==
    [c \in Consumers |-> IF c \in tokenListeners THEN cached ELSE tk[c]]

\* What a step did, as its caller and the collaborators see it:
\*   ret       the value returned to the caller (Null when nothing is returned)
\*   error     the call threw / its promise rejected
\*   requested a getToken request was sent to the identity provider
\*   notified  the listeners invoked by notifyListeners
\*   rejected, fetched   how the identity provider's request settled
Step(op) ==
    [op |-> op, ret |-> Null, error |-> FALSE, requested |-> FALSE,
     notified |-> {}, rejected |-> FALSE, fetched |-> Null]

\* a step that is no call of getSharedToken or clearToken
NoCall == Step("none")

TokenInit ==
    /\ sharedToken = Null
    /\ tokenExpiry = Null
    /\ tokenListeners = {}
    /\ now = MaxNow - 1
    /\ mounted = [c \in Consumers |-> "unmounted"]
    /\ token = [c \in Consumers |-> Null]
    /\ isLoading = [c \in Consumers |-> FALSE]
    /\ inflight = [c \in Consumers |-> 0]
    /\ last = NoCall

\* Every handler below starts when the UI thread is free (running = 0).

\* First render of a component using the hook: useState(sharedToken),
\* useState(false).
Render(c) ==
    /\ running = 0
    /\ mounted[c] = "unmounted"
    /\ mounted' = [mounted EXCEPT ![c] = "rendered"]
    /\ token' = [token EXCEPT ![c] = sharedToken]
    /\ isLoading' = [isLoading EXCEPT ![c] = FALSE]
    /\ last' = NoCall
    /\ UNCHANGED <<sharedToken, tokenExpiry, tokenListeners, now, inflight>>
    /\ UNCHANGED <<guardVars, stepVars, pageVars>>

\* The subscription effect: tokenListeners.add(listener).
Subscribe(c) ==
    /\ running = 0
    /\ mounted[c] = "rendered"
    /\ mounted' = [mounted EXCEPT ![c] = "subscribed"]
    /\ tokenListeners' = tokenListeners \cup {c}
    /\ last' = NoCall
    /\ UNCHANGED <<sharedToken, tokenExpiry, now, token, isLoading, inflight>>
    /\ UNCHANGED <<guardVars, stepVars, pageVars>>

\* Unmount whose cleanup forgets tokenListeners.delete(listener)
UnmountLeak(c) ==
    /\ running = 0
    /\ mounted[c] = "subscribed"
    /\ mounted' = [mounted EXCEPT ![c] = "unmounted"]
    /\ token' = [token EXCEPT ![c] = Null]
    /\ isLoading' = [isLoading EXCEPT ![c] = FALSE]
    /\ last' = NoCall
    /\ UNCHANGED <<sharedToken, tokenExpiry, tokenListeners, now, inflight>>
    /\ UNCHANGED <<guardVars, stepVars, pageVars>>

\* The effect's cleanup on unmount: tokenListeners.delete(listener).  The
\* component's state is discarded; calls it has in flight are not cancelled.
Unmount(c) ==
    /\ running = 0
    /\ mounted[c] = "subscribed"
    /\ mounted' = [mounted EXCEPT ![c] = "unmounted"]
    /\ tokenListeners' = tokenListeners \ {c}
    /\ token' = [token EXCEPT ![c] = Null]
    /\ isLoading' = [isLoading EXCEPT ![c] = FALSE]
    /\ last' = NoCall
    /\ UNCHANGED <<sharedToken, tokenExpiry, now, inflight>>
    /\ UNCHANGED <<guardVars, stepVars, pageVars>>

\* getSharedToken up to its first suspension point: either the cached token
\* is returned, or setIsLoading(true) and the getToken request is issued.
getSharedToken(c) ==
    /\ running = 0
    /\ mounted[c] = "subscribed"
    /\ IF Truthy(sharedToken) /\ isTokenValid(sharedToken, tokenExpiry, now)
       THEN /\ last' = [Step("getSharedToken") EXCEPT !.ret = sharedToken]
            /\ UNCHANGED <<isLoading, inflight>>
       ELSE /\ inflight[c] < MaxInFlight
            /\ isLoading' = SetState(isLoading, c, TRUE)
            /\ inflight' = [inflight EXCEPT ![c] = @ + 1]
            /\ last' = [Step("getSharedToken") EXCEPT !.requested = TRUE]
    /\ UNCHANGED <<sharedToken, tokenExpiry, tokenListeners, now, mounted, token>>
    /\ UNCHANGED <<guardVars, stepVars, pageVars>>

\* GetTokenSettled that asks the identity provider again when it yields no
\* token, instead of throwing
GetTokenSettledRetry(c, rejected, newToken) ==
    /\ running = 0
    /\ inflight[c] > 0
    /\ rejected => newToken = Null
    /\ IF rejected \/ ~Truthy(newToken)
       THEN /\ last' = [Step("settled") EXCEPT !.requested = TRUE,
                           !.rejected = rejected, !.fetched = newToken]
            /\ UNCHANGED <<sharedToken, tokenExpiry, token, inflight, isLoading>>
       ELSE /\ inflight' = [inflight EXCEPT ![c] = @ - 1]
            /\ isLoading' = SetState(isLoading, c, FALSE)
            /\ tokenExpiry' = IF PayloadExp(newToken) = Undecodable
                              THEN tokenExpiry
                              ELSE PayloadExp(newToken)
            /\ sharedToken' = newToken
            /\ token' = notifyListeners(SetState(token, c, newToken), newToken)
            /\ last' = [Step("settled") EXCEPT !.ret = newToken,
                           !.notified = tokenListeners, !.fetched = newToken]
    /\ UNCHANGED <<tokenListeners, now, mounted>>
    /\ UNCHANGED <<guardVars, stepVars, pageVars>>

\* GetTokenSettled that empties the cache and notifies the listeners when the
\* identity provider fails
GetTokenSettledClearsOnFailure(c, rejected, newToken) ==
    /\ running = 0
    /\ inflight[c] > 0
    /\ rejected => newToken = Null
    /\ inflight' = [inflight EXCEPT ![c] = @ - 1]
    /\ isLoading' = SetState(isLoading, c, FALSE)
    /\ IF rejected \/ ~Truthy(newToken)
       THEN /\ sharedToken' = Null
            /\ tokenExpiry' = Null
            /\ token' = notifyListeners(SetState(token, c, Null), Null)
            /\ last' = [Step("settled") EXCEPT !.error = TRUE,
                           !.notified = tokenListeners,
                           !.rejected = rejected, !.fetched = newToken]
       ELSE /\ tokenExpiry' = IF PayloadExp(newToken) = Undecodable
                              THEN tokenExpiry
                              ELSE PayloadExp(newToken)
            /\ sharedToken' = newToken
            /\ token' = notifyListeners(SetState(token, c, newToken), newToken)
            /\ last' = [Step("settled") EXCEPT !.ret = newToken,
                           !.notified = tokenListeners, !.fetched = newToken]
    /\ UNCHANGED <<tokenListeners, now, mounted>>
    /\ UNCHANGED <<guardVars, stepVars, pageVars>>

\* getSharedToken from the point where getToken settles to its return or
\* throw.  rejected: the request failed; otherwise newToken is what the
\* identity provider yielded (a token, or Null for none).
GetTokenSettled(c, rejected, newToken) ==
    /\ running = 0
    /\ inflight[c] > 0
    /\ rejected => newToken = Null
    /\ inflight' = [inflight EXCEPT ![c] = @ - 1]
    /\ isLoading' = SetState(isLoading, c, FALSE)
    /\ IF rejected \/ ~Truthy(newToken)
       THEN /\ last' = [Step("settled") EXCEPT !.error = TRUE,
                           !.rejected = rejected, !.fetched = newToken]
            /\ UNCHANGED <<sharedToken, tokenExpiry, token>>
       ELSE /\ tokenExpiry' = IF PayloadExp(newToken) = Undecodable
                              THEN tokenExpiry
                              ELSE PayloadExp(newToken)
            /\ sharedToken' = newToken
            /\ token' = notifyListeners(SetState(token, c, newToken), newToken)
            /\ last' = [Step("settled") EXCEPT !.ret = newToken,
                           !.notified = tokenListeners, !.fetched = newToken]
    /\ UNCHANGED <<tokenListeners, now, mounted>>
    /\ UNCHANGED <<guardVars, stepVars, pageVars>>

\* clearToken that resets the cache and the caller's state but skips
\* notifyListeners()
clearTokenSilent(c) ==
    /\ running = 0
    /\ mounted[c] = "subscribed"
    /\ sharedToken' = Null
    /\ tokenExpiry' = Null
    /\ token' = SetState(token, c, Null)
    /\ last' = Step("clearToken")
    /\ UNCHANGED <<tokenListeners, now, mounted, isLoading, inflight>>
    /\ UNCHANGED <<guardVars, stepVars, pageVars>>

\* clearToken(): reset the cache, setToken(null), notifyListeners()
clearToken(c) ==
    /\ running = 0
    /\ mounted[c] = "subscribed"
    /\ sharedToken' = Null
    /\ tokenExpiry' = Null
    /\ token' = notifyListeners(SetState(token, c, Null), Null)
    /\ last' = [Step("clearToken") EXCEPT !.notified = tokenListeners]
    /\ UNCHANGED <<tokenListeners, now, mounted, isLoading, inflight>>
    /\ UNCHANGED <<guardVars, stepVars, pageVars>>

\* The wall clock advances between handlers.
Tick ==
    /\ \E t \in Instants : t > now /\ now' = t
    /\ last' = NoCall
    /\ UNCHANGED <<sharedToken, tokenExpiry, tokenListeners, mounted, token,
                   isLoading, inflight>>
    /\ UNCHANGED <<guardVars, stepVars, pageVars>>

TokenNext ==
    \/ \E c \in Consumers : Render(c)
    \/ \E c \in Consumers : Subscribe(c)
    \/ \E c \in Consumers : Unmount(c)
    \/ \E c \in Consumers : getSharedToken(c)
    \/ \E c \in Consumers : \E rejected \in BOOLEAN :
          \E newToken \in Tokens \cup {Null} : GetTokenSettled(c, rejected, newToken)
    \/ \E c \in Consumers : clearToken(c)
    \/ Tick

(***************************************************************************)
(* The role-gated route guards.                                            *)
(***************************************************************************)
\* useUser().user when nobody is signed in
NoUser == "<no user>"
\* user.publicMetadata?.role of a user without a role
NoRole == "<undefined>"
\* a prop the call site leaves out
Omitted == "<omitted>"
\* navigate() was not called
NoNav == "<none>"

RoleValues == {"ADMIN", "admin", "STUDENT", ""}
UserValues == RoleValues \cup {NoRole}
\* fallback paths a call site configures; none lies under the guarded route
RedirectValues == {"/dashboard", "/"}
GuardedPath == "/admin"
GuardKinds == {"ProtectedRoute", "RoleBasedRoute"}


\* a destructuring default: `prop = dflt`
Default(prop, dflt) == IF prop = Omitted THEN dflt ELSE prop

\* JavaScript truthiness of a string prop
TruthyStr(s) == s # ""

\* ProtectedRoute's effect without the role check: only the sign-in check
ProtectedRouteEffectNoFallback(loaded, u, reqProp, toProp) ==
    IF ~loaded THEN NoNav
    ELSE IF u = NoUser THEN "/login"
    ELSE NoNav

\* ProtectedRoute's effect: the path it navigates to, or NoNav
ProtectedRouteEffect(loaded, u, reqProp, toProp) ==
    LET req == Default(reqProp, "admin")
        to  == Default(toProp, "/dashboard")
    IN  IF ~loaded THEN NoNav
        ELSE IF u = NoUser THEN "/login"
        ELSE IF TruthyStr(req) /\ u # req THEN to
        ELSE NoNav

\* ProtectedRoute's render result comparing the role with the literal
\* "admin" instead of requiredRole
ProtectedRouteViewAdminOnly(loaded, u, reqProp) ==
    LET req == Default(reqProp, "admin")
    IN  IF ~loaded THEN "placeholder"
        ELSE IF u = NoUser \/ (TruthyStr(req) /\ u # "admin") THEN "nothing"
        ELSE "children"

\* ProtectedRoute's render result
ProtectedRouteView(loaded, u, reqProp) ==
    LET req == Default(reqProp, "admin")
    IN  IF ~loaded THEN "placeholder"
        ELSE IF u = NoUser \/ (TruthyStr(req) /\ u # req) THEN "nothing"
        ELSE "children"

\* RoleBasedRoute's effect sending a signed-out visitor to the fallback path
RoleBasedRouteEffectNoLogin(loaded, u, reqProp, toProp) ==
    LET to == Default(toProp, "/dashboard")
    IN  IF ~loaded THEN NoNav
        ELSE IF u # reqProp THEN to
        ELSE NoNav

\* RoleBasedRoute's effect: the path it navigates to, or NoNav
RoleBasedRouteEffect(loaded, u, reqProp, toProp) ==
    LET to == Default(toProp, "/dashboard")
    IN  IF ~loaded THEN NoNav
        ELSE IF u = NoUser THEN "/login"
        ELSE IF u # reqProp THEN to
        ELSE NoNav

\* RoleBasedRoute's render result without the early return for !isLoaded
RoleBasedRouteViewNoPlaceholder(loaded, u, reqProp) ==
    IF u = NoUser THEN "authenticating"
    ELSE IF u # reqProp THEN "accessDenied"
    ELSE "children"

\* RoleBasedRoute's render result without the comparison of the role
RoleBasedRouteViewAnyRole(loaded, u, reqProp) ==
    IF ~loaded THEN "placeholder"
    ELSE IF u = NoUser THEN "authenticating"
    ELSE "children"

\* RoleBasedRoute's render result
RoleBasedRouteView(loaded, u, reqProp) ==
    IF ~loaded THEN "placeholder"
    ELSE IF u = NoUser THEN "authenticating"
    ELSE IF u # reqProp THEN "accessDenied"
    ELSE "children"

GuardEffect(kind, loaded, u, reqProp, toProp) ==
    IF kind = "ProtectedRoute"
    THEN ProtectedRouteEffect(loaded, u, reqProp, toProp)
    ELSE RoleBasedRouteEffect(loaded, u, reqProp, toProp)

GuardView(kind, loaded, u, reqProp) ==
    IF kind = "ProtectedRoute"
    THEN ProtectedRouteView(loaded, u, reqProp)
    ELSE RoleBasedRouteView(loaded, u, reqProp)

GuardInit ==
    /\ guardKind \in GuardKinds
    /\ requiredRole \in RoleValues \cup
          (IF guardKind = "ProtectedRoute" THEN {Omitted} ELSE {})
    /\ redirectTo \in RedirectValues \cup {Omitted}
    /\ isLoaded \in BOOLEAN
    /\ user \in (IF isLoaded THEN UserValues \cup {NoUser} ELSE {NoUser})
    /\ phase = "mounting"
    /\ view = "none"
    /\ navigations = <<>>
    /\ location = GuardedPath

\* The guard's function body runs: the render result for the current identity.
GuardRender ==
    /\ phase \in {"mounting", "dirty"}
    /\ view' = GuardView(guardKind, isLoaded, user, requiredRole)
    /\ phase' = "effectPending"
    /\ UNCHANGED <<guardKind, requiredRole, redirectTo, isLoaded, user,
                   navigations, location>>
    /\ UNCHANGED <<tokenVars, stepVars, pageVars>>

\* The guard's effect runs after the render that changed its dependencies.
\* navigate(path) moves the router off the guarded route, which unmounts
\* the guard.
GuardRunEffect ==
    /\ phase = "effectPending"
    /\ LET target == GuardEffect(guardKind, isLoaded, user, requiredRole, redirectTo)
       IN  IF target = NoNav
           THEN /\ phase' = "idle"
                /\ UNCHANGED <<navigations, location>>
           ELSE /\ navigations' = Append(navigations, target)
                /\ location' = target
                /\ phase' = "left"
    /\ UNCHANGED <<guardKind, requiredRole, redirectTo, isLoaded, user, view>>
    /\ UNCHANGED <<tokenVars, stepVars, pageVars>>

\* The identity provider finishes loading: isLoaded becomes true and the
\* user, if any, is known.
ClerkLoaded(u) ==
    /\ phase = "idle"
    /\ ~isLoaded
    /\ isLoaded' = TRUE
    /\ user' = u
    /\ phase' = "dirty"
    /\ UNCHANGED <<guardKind, requiredRole, redirectTo, view, navigations, location>>
    /\ UNCHANGED <<tokenVars, stepVars, pageVars>>

\* The signed-in identity changes while the guard is mounted (sign-out,
\* sign-in, role metadata updated).
UserChanged(u) ==
    /\ phase = "idle"
    /\ isLoaded
    /\ u # user
    /\ user' = u
    /\ phase' = "dirty"
    /\ UNCHANGED <<guardKind, requiredRole, redirectTo, isLoaded, view,
                   navigations, location>>
    /\ UNCHANGED <<tokenVars, stepVars, pageVars>>

\* The guarded route is entered again after a redirect: a new guard instance.
RouteEnter(u) ==
    /\ phase = "left"
    /\ user' = u
    /\ phase' = "mounting"
    /\ view' = "none"
    /\ navigations' = <<>>
    /\ location' = GuardedPath
    /\ UNCHANGED <<guardKind, requiredRole, redirectTo, isLoaded>>
    /\ UNCHANGED <<tokenVars, stepVars, pageVars>>

GuardNext ==
    \/ GuardRender
    \/ GuardRunEffect
    \/ \E u \in UserValues \cup {NoUser} : ClerkLoaded(u)
    \/ \E u \in UserValues \cup {NoUser} : UserChanged(u)
    \/ \E u \in UserValues \cup {NoUser} : RouteEnter(u)

\* the guard part while the token cache is exercised
GuardAbsent ==
    /\ guardKind = "ProtectedRoute"
    /\ requiredRole = Omitted
    /\ redirectTo = Omitted
    /\ isLoaded = FALSE
    /\ user = NoUser
    /\ phase = "left"
    /\ view = "none"
    /\ navigations = <<>>
    /\ location = "/"

(***************************************************************************)
(* The handlers that write the cache, statement by statement.  JavaScript  *)
(* runs a handler to completion: the thread is handed to another handler   *)
(* only at an `await` or when the handler returns.                         *)
(***************************************************************************)
StepsIdle ==
    /\ running = 0
    /\ pc = "idle"
    /\ newTokenLocal = Null

\* getSharedToken resumed with a token, up to and including the write of
\* tokenExpiry, with an `await` placed between that write and the caching
\* of the token
RefreshDecodeAwait(c, newToken) ==
    /\ running = 0
    /\ inflight[c] > 0
    /\ Truthy(newToken)
    /\ tokenExpiry' = IF PayloadExp(newToken) = Undecodable
                      THEN tokenExpiry
                      ELSE PayloadExp(newToken)
    /\ running' = 0
    /\ pc' = "refresh:cache"
    /\ newTokenLocal' = newToken
    /\ last' = [Step("refresh:decode") EXCEPT !.fetched = newToken]
    /\ UNCHANGED <<sharedToken, tokenListeners, now, mounted, token, isLoading,
                   inflight>>
    /\ UNCHANGED <<guardVars, pageVars>>

\* getSharedToken resumed with a token: the null check and the decoding
\* block, whose last statement to take effect is `tokenExpiry = payload.exp`
\* (skipped when decoding throws).  The handler keeps the thread.
RefreshDecode(c, newToken) ==
    /\ running = 0
    /\ inflight[c] > 0
    /\ Truthy(newToken)
    /\ tokenExpiry' = IF PayloadExp(newToken) = Undecodable
                      THEN tokenExpiry
                      ELSE PayloadExp(newToken)
    /\ running' = c
    /\ pc' = "refresh:cache"
    /\ newTokenLocal' = newToken
    /\ last' = [Step("refresh:decode") EXCEPT !.fetched = newToken]
    /\ UNCHANGED <<sharedToken, tokenListeners, now, mounted, token, isLoading,
                   inflight>>
    /\ UNCHANGED <<guardVars, pageVars>>

\* ... `sharedToken = newToken`, setToken, notifyListeners, return, finally
RefreshCache(c) ==
    /\ running = c
    /\ pc = "refresh:cache"
    /\ sharedToken' = newTokenLocal
    /\ token' = notifyListeners(SetState(token, c, newTokenLocal), newTokenLocal)
    /\ isLoading' = SetState(isLoading, c, FALSE)
    /\ inflight' = [inflight EXCEPT ![c] = @ - 1]
    /\ running' = 0
    /\ pc' = "idle"
    /\ newTokenLocal' = Null
    /\ last' = [Step("settled") EXCEPT !.ret = newTokenLocal,
                   !.notified = tokenListeners, !.fetched = newTokenLocal]
    /\ UNCHANGED <<tokenExpiry, tokenListeners, now, mounted>>
    /\ UNCHANGED <<guardVars, pageVars>>

\* clearToken: `sharedToken = null`
ClearSharedToken(c) ==
    /\ running = 0
    /\ mounted[c] = "subscribed"
    /\ sharedToken' = Null
    /\ running' = c
    /\ pc' = "clear:expiry"
    /\ last' = Step("clear:token")
    /\ UNCHANGED <<tokenExpiry, tokenListeners, now, mounted, token, isLoading,
                   inflight, newTokenLocal>>
    /\ UNCHANGED <<guardVars, pageVars>>

\* ... `tokenExpiry = null`, setToken(null), notifyListeners()
ClearExpiry(c) ==
    /\ running = c
    /\ pc = "clear:expiry"
    /\ tokenExpiry' = Null
    /\ token' = notifyListeners(SetState(token, c, Null), Null)
    /\ running' = 0
    /\ pc' = "idle"
    /\ last' = [Step("clearToken") EXCEPT !.notified = tokenListeners]
    /\ UNCHANGED <<sharedToken, tokenListeners, now, mounted, isLoading,
                   inflight, newTokenLocal>>
    /\ UNCHANGED <<guardVars, pageVars>>

\* The handlers that write the cache at most once run as one step each, as
\* in TokenNext; a refresh that obtained a token and clearToken run as two.
StepsNext ==
    \/ \E c \in Consumers : Render(c)
    \/ \E c \in Consumers : Subscribe(c)
    \/ \E c \in Consumers : Unmount(c)
    \/ \E c \in Consumers : getSharedToken(c)
    \/ \E c \in Consumers : \E rejected \in BOOLEAN :
          GetTokenSettled(c, rejected, Null)
    \/ \E c \in Consumers : \E newToken \in Tokens : RefreshDecode(c, newToken)
    \/ \E c \in Consumers : RefreshCache(c)
    \/ \E c \in Consumers : ClearSharedToken(c)
    \/ \E c \in Consumers : ClearExpiry(c)
    \/ Tick

(***************************************************************************)
(* Booking statuses.  A status is a JavaScript value: a string, given by   *)
(* the word it spells and the letter case it is written in, or a value     *)
(* that is not a string.                                                   *)
(***************************************************************************)
Casings == {"upper", "lower", "capitalized", "mixed"}
StatusWords == {"PENDING", "ACCEPTED", "COMPLETED", "CANCELLED", "EXPIRED"}

Str(word, casing) == [word |-> word, casing |-> casing]
NullStatus == [word |-> "<null>", casing |-> "none"]
UndefinedStatus == [word |-> "<undefined>", casing |-> "none"]
\* a truthy value that is not a string
NumberStatus == [word |-> "<number>", casing |-> "none"]
EmptyStatus == Str("", "upper")

RawStatuses ==
    {Str(w, c) : w \in StatusWords, c \in Casings}
        \cup {NullStatus, UndefinedStatus, EmptyStatus, NumberStatus}

\* typeof status === 'string'
isString(status) == status.casing \in Casings

\* !status
Falsy(status) == status \in {NullStatus, UndefinedStatus, EmptyStatus}

\* a || b
Or(a, b) == IF Falsy(a) THEN b ELSE a

\* String.prototype.toUpperCase
toUpperCase(status) == [status EXCEPT !.casing = "upper"]

\* the members of the SessionStatus enum
SessionStatus(word) == Str(word, "upper")

\* the statuses the booking table knows how to advance
normalizeStatus(status) ==
    IF Falsy(status) THEN NullStatus
    ELSE IF isString(status) /\ toUpperCase(status) = Str("PENDING", "upper")
         THEN SessionStatus("PENDING")
    ELSE IF isString(status) /\ toUpperCase(status) = Str("ACCEPTED", "upper")
         THEN SessionStatus("ACCEPTED")
    ELSE IF isString(status) /\ toUpperCase(status) = Str("COMPLETED", "upper")
         THEN SessionStatus("COMPLETED")
    ELSE status

(***************************************************************************)
(* The bookings pages: ManageBookingsPage backed by the REST API           *)
(* (unnamed/part_001) and its mock-data variant                            *)
(* (components/admin/ManageBookingsPage.tsx).                              *)
(***************************************************************************)
BookingIds == {1, 2}
NoBooking == 0
MaxUpdateCalls == 2

\* what the backend may put in session_status / status of a session
BackendStatuses ==
    {SessionStatus("PENDING"), Str("PENDING", "lower"), SessionStatus("ACCEPTED"),
     SessionStatus("COMPLETED"), SessionStatus("CANCELLED"), NullStatus}

\* the first bookings of the mock page's data
mockBookings == <<Str("PENDING", "upper"), Str("ACCEPTED", "upper")>>

\* the status a fetched session is given, without the PENDING default
processedStatusNoDefault(session_status, status) ==
    Or(session_status, status)

\* the status a fetched session is given
processedStatus(session_status, status) ==
    Or(Or(session_status, status), SessionStatus("PENDING"))

\* setBookings writing the new status into every booking of the list
setEveryBookingStatus(prev, bookingId, newStatus) ==
    [b \in DOMAIN prev |-> newStatus]

\* prev.map(booking => booking.id === bookingId ? {...booking, status} : booking)
setBookingStatus(prev, bookingId, newStatus) ==
    [b \in DOMAIN prev |-> IF b = bookingId THEN newStatus ELSE prev[b]]

\* the sequence s without its i-th element
RemoveAt(s, i) == SubSeq(s, 1, i - 1) \o SubSeq(s, i + 1, Len(s))

\* the update a rendered, enabled button of booking b asks for, NullStatus
\* when the row shows no button
ButtonOf(page, status) ==
    LET shown == IF page = "api" THEN normalizeStatus(status) ELSE status
    IN  IF shown = Str("PENDING", "upper") THEN SessionStatus("ACCEPTED")
        ELSE IF shown = Str("ACCEPTED", "upper") THEN SessionStatus("COMPLETED")
        ELSE NullStatus

BookingsInit ==
    bookingsPage \in
        [kind : {"api", "mock"},
         bookings : {<<>>},
         isLoading : {TRUE},
         updateCalls : {<<>>},
         updatingBooking : {NoBooking},
         toast : {"none"}]

\* fetchBookings, started by the mount effect, comes to its end
FetchBookingsSettled(outcome, sessions) ==
    /\ bookingsPage.kind = "api"
    /\ bookingsPage.isLoading
    /\ bookingsPage' =
         [bookingsPage EXCEPT
            !.isLoading = FALSE,
            !.bookings = IF outcome = "ok"
                         THEN [b \in BookingIds |->
                                 processedStatus(sessions[b][1], sessions[b][2])]
                         ELSE @,
            !.toast = IF outcome = "failed" THEN "error" ELSE @]
    /\ UNCHANGED <<tokenVars, guardVars, stepVars, form, row, router>>

\* the mock page's loadBookings timer fires
LoadBookingsSettled ==
    /\ bookingsPage.kind = "mock"
    /\ bookingsPage.isLoading
    /\ bookingsPage' =
         [bookingsPage EXCEPT !.isLoading = FALSE, !.bookings = mockBookings]
    /\ UNCHANGED <<tokenVars, guardVars, stepVars, form, row, router>>

\* a click on the Approve or Complete button of booking b: the handler runs
\* up to its first await
updateBookingStatus(b) ==
    /\ ~bookingsPage.isLoading
    /\ b \in DOMAIN bookingsPage.bookings
    /\ ButtonOf(bookingsPage.kind, bookingsPage.bookings[b]) # NullStatus
    /\ bookingsPage.kind = "mock" => bookingsPage.updatingBooking # b
    /\ Len(bookingsPage.updateCalls) < MaxUpdateCalls
    /\ bookingsPage' =
         [bookingsPage EXCEPT
            !.updateCalls = Append(@,
               [bookingId |-> b,
                newStatus |-> ButtonOf(bookingsPage.kind, bookingsPage.bookings[b]),
                at |-> IF bookingsPage.kind = "api" THEN "getToken" ELSE "timer"]),
            !.updatingBooking = IF bookingsPage.kind = "mock" THEN b ELSE @]
    /\ UNCHANGED <<tokenVars, guardVars, stepVars, form, row, router>>

\* getToken settles for the i-th suspended call of the API page
UpdateTokenSettled(i, outcome) ==
    /\ bookingsPage.kind = "api"
    /\ i \in DOMAIN bookingsPage.updateCalls
    /\ bookingsPage.updateCalls[i].at = "getToken"
    /\ bookingsPage' =
         [bookingsPage EXCEPT
            !.updateCalls = IF outcome = "token"
                            THEN [@ EXCEPT ![i].at = "fetch"]
                            ELSE RemoveAt(@, i),
            !.toast = IF outcome = "rejected" THEN "error" ELSE @]
    /\ UNCHANGED <<tokenVars, guardVars, stepVars, form, row, router>>

\* the PUT of the i-th suspended call settles
UpdateResponse(i, outcome) ==
    /\ bookingsPage.kind = "api"
    /\ i \in DOMAIN bookingsPage.updateCalls
    /\ bookingsPage.updateCalls[i].at = "fetch"
    /\ LET call == bookingsPage.updateCalls[i]
       IN  bookingsPage' =
             [bookingsPage EXCEPT
                !.updateCalls = RemoveAt(@, i),
                !.bookings = IF outcome = "ok"
                             THEN setBookingStatus(@, call.bookingId, call.newStatus)
                             ELSE @,
                !.toast = IF outcome = "ok" THEN "success" ELSE "error"]
    /\ UNCHANGED <<tokenVars, guardVars, stepVars, form, row, router>>

\* the mock page's 800 ms timers have one delay, so they fire in the order
\* they were set
UpdateTimerFired ==
    /\ bookingsPage.kind = "mock"
    /\ bookingsPage.updateCalls # <<>>
    /\ LET call == Head(bookingsPage.updateCalls)
       IN  bookingsPage' =
             [bookingsPage EXCEPT
                !.updateCalls = Tail(@),
                !.bookings = setBookingStatus(@, call.bookingId, call.newStatus),
                !.toast = "success",
                !.updatingBooking = NoBooking]
    /\ UNCHANGED <<tokenVars, guardVars, stepVars, form, row, router>>

BookingsNext ==
    \/ \E outcome \in {"ok", "noToken", "failed"} :
       \E sessions \in [BookingIds -> BackendStatuses \X {UndefinedStatus, SessionStatus("ACCEPTED")}] :
          FetchBookingsSettled(outcome, sessions)
    \/ LoadBookingsSettled
    \/ \E b \in BookingIds : updateBookingStatus(b)
    \/ \E i \in 1..MaxUpdateCalls : \E outcome \in {"token", "noToken", "rejected"} :
          UpdateTokenSettled(i, outcome)
    \/ \E i \in 1..MaxUpdateCalls : \E outcome \in {"ok", "http", "rejected"} :
          UpdateResponse(i, outcome)
    \/ UpdateTimerFired

\* no bookings page is mounted
BookingsAbsent == bookingsPage = [kind |-> "none"]

(***************************************************************************)
(* The admin forms: CreateMentorPage and the three CreateClassPage         *)
(* variants (pages/CreateMentorPage.tsx, unnamed/part_002).  A submission  *)
(* is followed from the click to its last statement; every `await` is a    *)
(* step of its own.                                                        *)
(*   "mentor"           CreateMentorPage, schema-validated                 *)
(*   "classZod"         CreateClassPage, schema-validated, uploads a file  *)
(*   "classPermissions" CreateClassPage checking the role, inline image    *)
(*   "classShared"      CreateClassPage on the shared token, inline image  *)
(***************************************************************************)
FormKinds == {"mentor", "classZod", "classPermissions", "classShared"}

NumClasses == 2
ClassIds == 1..NumClasses

MAX_FILE_SIZE == 5 * 1024 * 1024
ACCEPTED_IMAGE_TYPES == {"image/jpeg", "image/jpg", "image/png", "image/webp"}

\* an empty FileList / selectedFile === null
NoFile == [size |-> 0, type |-> "<none>"]
Files ==
    {NoFile,
     [size |-> MAX_FILE_SIZE, type |-> "image/png"],
     [size |-> 6 * 1024 * 1024, type |-> "image/png"],
     [size |-> MAX_FILE_SIZE, type |-> "image/gif"]}

\* class names, character by character
ClassNames ==
    {<<>>, <<" ", " ", " ">>, <<"a", "b">>, <<"A", "/", "L">>,
     <<" ", "a", "b", " ">>}

\* the personal fields of the mentor form, taken as one value
PersonalFields == {"mentor-a", "mentor-b"}

RECURSIVE trimStart(_)
trimStart(s) == IF s # <<>> /\ Head(s) = " " THEN trimStart(Tail(s)) ELSE s

RECURSIVE trimEnd(_)
trimEnd(s) ==
    IF s # <<>> /\ s[Len(s)] = " " THEN trimEnd(SubSeq(s, 1, Len(s) - 1)) ELSE s

\* String.prototype.trim
trim(s) == trimEnd(trimStart(s))

\* the image rules of mentorFormSchema: the file is optional
mentorImageValid(file) ==
    file = NoFile
        \/ (file.size <= MAX_FILE_SIZE /\ file.type \in ACCEPTED_IMAGE_TYPES)

\* mentorFormSchema, the personal fields being well-formed
mentorFormSchema(data) ==
    /\ mentorImageValid(data.image)
    /\ Len(data.selectedClasses) >= 1

\* classroomFormSchema
classroomFormSchema(data) ==
    /\ Len(data.name) >= 3
    /\ data.image # NoFile
    /\ data.image.size <= MAX_FILE_SIZE
    /\ data.image.type \in ACCEPTED_IMAGE_TYPES

\* what the form library lets through to the submit handler
Validates(kind, data) ==
    IF kind = "mentor" THEN mentorFormSchema(data)
    ELSE IF kind = "classZod" THEN classroomFormSchema(data)
    ELSE TRUE

\* the error thrown before the first await of the submit handler, "" if none
EarlyError(kind, data, loaded, u) ==
    IF kind = "mentor"
    THEN IF ~loaded THEN "User authentication is loading..."
         ELSE IF u = NoUser THEN "User not authenticated"
         ELSE IF u # "ADMIN" THEN "You must have admin privileges to create mentors."
         ELSE ""
    ELSE IF kind = "classZod" THEN ""
    ELSE IF trim(data.name) = <<>> THEN "Class name is required"
    ELSE IF kind = "classShared" THEN ""
    ELSE IF ~loaded THEN "Authentication is loading..."
    ELSE IF u = NoUser THEN "You must be logged in to create classes"
    ELSE IF u # "admin" THEN "You must be an admin to create classes"
    ELSE ""

\* how many times a token is asked for before giving up
TokenTries(kind) ==
    IF kind \in {"mentor", "classZod"} THEN 3
    ELSE IF kind = "classPermissions" THEN 2
    ELSE 1

\* the catch block of the submit handler: the toast it leaves
catchToast(kind, shown) == IF kind = "classShared" THEN shown ELSE "error"

\* the body of POST /academic/mentor, always for the first selected class
requestBodyFirstClass(data, url, classId) ==
    [clerk_mentor_id |-> data.personal,
     mentor_image |-> url,
     class_room_id |-> data.selectedClasses[1]]

\* the body of POST /academic/mentor
requestBody(data, url, classId) ==
    [clerk_mentor_id |-> data.personal,
     mentor_image |-> url,
     class_room_id |-> classId]

\* the body of POST /academic/classroom
classroomBody(kind, data, url) ==
    [title |-> IF kind = "classZod" THEN data.name ELSE trim(data.name),
     image |-> url]

\* a request as it is sent, and once its response has arrived
Request(endpoint, body) ==
    [endpoint |-> endpoint, body |-> body, outcome |-> "pending"]

Settle(reqs, outcome) == [reqs EXCEPT ![Len(reqs)].outcome = outcome]

\* the checkbox of class c in the mentor form
toggleClass(selected, c) ==
    IF \E i \in DOMAIN selected : selected[i] = c
    THEN SelectSeq(selected, LAMBDA id : id # c)
    ELSE Append(selected, c)

\* defaultValues / the initial useState values, which reset() restores
DefaultFields ==
    [name |-> <<>>, image |-> NoFile, selectedClasses |-> <<>>,
     personal |-> ""]

\* what follows the response to the POST for the k-th of n selected classes,
\* the loop going on to the next class whatever the response
afterMentorPostKeepGoing(outcome, k, n) ==
    IF k < n THEN "next"
    ELSE IF outcome = "ok" THEN "success"
    ELSE "catch"

\* what follows the response to the POST for the k-th of n selected classes
afterMentorPost(outcome, k, n) ==
    IF outcome # "ok" THEN "catch"
    ELSE IF k < n THEN "next"
    ELSE "success"

\* what follows the response to POST /academic/classroom.  A 2xx response
\* carries a JSON body; an error response may ("httpJson") or may not
\* ("httpText").
afterClassroomPost(kind, outcome) ==
    IF outcome = "rejected" THEN "catch"
    ELSE IF kind = "classShared"
         THEN IF outcome = "httpText" THEN "catch" ELSE "success"
    ELSE IF outcome = "ok" THEN "success" ELSE "catch"

FormsInit ==
    /\ form \in
         [kind : FormKinds,
          isLoaded : BOOLEAN,
          user : {NoUser, "admin", "ADMIN"},
          fields : [name : ClassNames,
                    image : Files,
                    selectedClasses : {<<>>},
                    personal : PersonalFields \cup {""}],
          formData : {DefaultFields},
          pc : {"editing"},
          tokenTry : {0},
          tokenCalls : {0},
          loopIndex : {0},
          imageUrl : {""},
          requests : {<<>>},
          toast : {"none"},
          reset : {FALSE}]
    /\ ~form.isLoaded => form.user = NoUser
    /\ form.kind \in {"classZod", "classShared"} =>
          form.isLoaded /\ form.user = "admin"
    /\ form.kind = "mentor" =>
          form.fields.name = <<>> /\ form.fields.personal \in PersonalFields
    /\ form.kind # "mentor" => form.fields.personal = ""

\* the catch block, then the end of the handler
Catch(f) ==
    [f EXCEPT !.pc = "done", !.toast = catchToast(f.kind, @)]

\* the success toast and reset(), then the end of the handler
Succeed(f) ==
    [f EXCEPT !.pc = "done", !.toast = "success", !.reset = TRUE,
              !.fields = DefaultFields]

\* the handler reaches the getToken call of its next request
AskToken(f, at) ==
    [f EXCEPT !.pc = at, !.tokenTry = 1, !.tokenCalls = @ + 1]

\* a class checkbox of the mentor form is clicked
ToggleClass(c) ==
    /\ form.kind = "mentor"
    /\ form.pc = "editing"
    /\ form' = [form EXCEPT !.fields.selectedClasses = toggleClass(@, c)]
    /\ UNCHANGED <<tokenVars, guardVars, stepVars, bookingsPage, row, router>>

\* the submit button is clicked: validation, then the handler up to its
\* first await
Submit ==
    /\ form.pc = "editing"
    /\ LET f == [form EXCEPT !.formData = form.fields]
       IN  form' =
             IF ~Validates(f.kind, f.fields)
             THEN [f EXCEPT !.pc = "invalid"]
             ELSE IF EarlyError(f.kind, f.fields, f.isLoaded, f.user) # ""
             THEN Catch(f)
             ELSE IF f.kind = "mentor" /\ f.fields.image = NoFile
             THEN [AskToken(f, "mentorToken") EXCEPT !.loopIndex = 1]
             ELSE IF f.kind \in {"mentor", "classZod"}
             THEN AskToken(f, "uploadToken")
             ELSE AskToken(f, "classToken")
    /\ UNCHANGED <<tokenVars, guardVars, stepVars, bookingsPage, row, router>>

\* a getToken / getSharedToken call of the submission settles
FormTokenSettled(outcome) ==
    /\ form.pc \in {"uploadToken", "mentorToken", "classToken"}
    /\ form' =
         IF outcome = "token"
         THEN IF form.pc = "uploadToken"
              THEN [form EXCEPT
                      !.pc = "upload",
                      !.requests = Append(@, Request("upload", form.formData.image))]
              ELSE IF form.pc = "mentorToken"
              THEN [form EXCEPT
                      !.pc = "mentorPost",
                      !.requests = Append(@, Request("mentor",
                          requestBody(form.formData, form.imageUrl,
                              form.formData.selectedClasses[form.loopIndex])))]
              ELSE IF form.kind = "classZod"
              THEN [form EXCEPT
                      !.pc = "classPost",
                      !.requests = Append(@, Request("classroom",
                          classroomBody(form.kind, form.formData, form.imageUrl)))]
              ELSE [form EXCEPT !.pc = "prepare"]
         ELSE IF outcome = "none" /\ form.tokenTry < TokenTries(form.kind)
         THEN [form EXCEPT !.tokenTry = @ + 1, !.tokenCalls = @ + 1]
         ELSE Catch(form)
    /\ UNCHANGED <<tokenVars, guardVars, stepVars, bookingsPage, row, router>>

\* POST /files/upload settles
UploadSettled(outcome) ==
    /\ form.pc = "upload"
    /\ LET f == [form EXCEPT !.requests = Settle(@, outcome)]
       IN  form' =
             IF outcome = "ok" \/ (outcome = "okNoUrl" /\ f.kind = "mentor")
             THEN LET g == [f EXCEPT !.imageUrl = IF outcome = "ok" THEN "url" ELSE ""]
                  IN  IF f.kind = "mentor"
                      THEN [AskToken(g, "mentorToken") EXCEPT !.loopIndex = 1]
                      ELSE AskToken(g, "classToken")
             ELSE Catch(f)
    /\ UNCHANGED <<tokenVars, guardVars, stepVars, bookingsPage, row, router>>

\* POST /academic/mentor for the class at loopIndex settles
MentorPostSettled(outcome) ==
    /\ form.pc = "mentorPost"
    /\ LET f == [form EXCEPT !.requests = Settle(@, outcome)]
           then == afterMentorPost(outcome, f.loopIndex,
                                   Len(f.formData.selectedClasses))
       IN  form' =
             IF then = "next"
             THEN [AskToken(f, "mentorToken") EXCEPT !.loopIndex = @ + 1]
             ELSE IF then = "success" THEN Succeed(f)
             ELSE Catch(f)
    /\ UNCHANGED <<tokenVars, guardVars, stepVars, bookingsPage, row, router>>

\* prepareRequestData settles, and createClassroom sends its request
PrepareSettled(outcome) ==
    /\ form.pc = "prepare"
    /\ form.formData.image = NoFile => outcome = "ok"
    /\ LET url == IF form.formData.image # NoFile /\ outcome = "ok"
                  THEN "base64" ELSE ""
       IN  form' =
             [form EXCEPT
                !.imageUrl = url,
                !.toast = IF outcome = "failed" THEN "warning" ELSE @,
                !.requests = Append(@, Request("classroom",
                                classroomBody(form.kind, form.formData, url))),
                !.pc = "classPost"]
    /\ UNCHANGED <<tokenVars, guardVars, stepVars, bookingsPage, row, router>>

\* POST /academic/classroom settles
ClassroomPostSettled(outcome) ==
    /\ form.pc = "classPost"
    /\ LET f == [form EXCEPT !.requests = Settle(@, outcome)]
       IN  form' = IF afterClassroomPost(f.kind, outcome) = "success"
                   THEN Succeed(f)
                   ELSE Catch(f)
    /\ UNCHANGED <<tokenVars, guardVars, stepVars, bookingsPage, row, router>>

FormsNext ==
    \/ \E c \in ClassIds : ToggleClass(c)
    \/ Submit
    \/ \E outcome \in {"token", "none", "rejected"} : FormTokenSettled(outcome)
    \/ \E outcome \in {"ok", "okNoUrl", "http", "rejected"} : UploadSettled(outcome)
    \/ \E outcome \in {"ok", "http", "rejected"} : MentorPostSettled(outcome)
    \/ \E outcome \in {"ok", "failed"} : PrepareSettled(outcome)
    \/ \E outcome \in {"ok", "httpJson", "httpText", "rejected"} :
          ClassroomPostSettled(outcome)

\* no form is mounted
FormsAbsent == form = [pc |-> "unmounted"]

(***************************************************************************)
(* One row of the bookings table: the status cell (StatusPill) and the     *)
(* action cell, both computed from booking.status.                         *)
(***************************************************************************)
NotComputed == [word |-> "<not computed>", casing |-> "none"]
NotRendered == [label |-> NotComputed, style |-> "none"]

\* s.charAt(0).toUpperCase() + s.slice(1).toLowerCase()
capitalize(s) == [s EXCEPT !.casing = "capitalized"]

\* the badge of a StatusPill that takes every string it does not recognize
\* for a pending booking
StatusPillCoerced(status) ==
    IF Falsy(status)
    THEN [label |-> Str("UNKNOWN", "capitalized"), style |-> "gray"]
    ELSE [label |-> capitalize(SessionStatus("PENDING")), style |-> "yellow"]

\* the badge StatusPill renders: its label and its colour
StatusPill(status) ==
    IF Falsy(status)
    THEN [label |-> Str("UNKNOWN", "capitalized"), style |-> "gray"]
    ELSE IF ~isString(status)
    THEN [label |-> [word |-> "<TypeError>", casing |-> "none"], style |-> "none"]
    ELSE IF toUpperCase(status) = Str("PENDING", "upper")
    THEN [label |-> capitalize(SessionStatus("PENDING")), style |-> "yellow"]
    ELSE IF toUpperCase(status) = Str("ACCEPTED", "upper")
    THEN [label |-> capitalize(SessionStatus("ACCEPTED")), style |-> "green"]
    ELSE IF toUpperCase(status) = Str("COMPLETED", "upper")
    THEN [label |-> capitalize(SessionStatus("COMPLETED")), style |-> "blue"]
    ELSE [label |-> capitalize(status), style |-> "gray"]

\* what the action cell of the row shows
ActionCell(status) ==
    LET n == normalizeStatus(status)
    IN  IF n = SessionStatus("PENDING") THEN "Approve"
        ELSE IF n = SessionStatus("ACCEPTED") THEN "Complete"
        ELSE IF n = SessionStatus("COMPLETED") THEN "Completed"
        ELSE IF Falsy(n) THEN "Status Unknown"
        ELSE ""

StatusInit ==
    row \in [status : RawStatuses,
             normalized : {NotComputed},
             pill : {NotRendered},
             actionCell : {"<not rendered>"}]

\* the status filter applies normalizeStatus to the row
NormalizeRow ==
    /\ row.normalized = NotComputed
    /\ row' = [row EXCEPT !.normalized = normalizeStatus(row.status)]
    /\ UNCHANGED <<tokenVars, guardVars, stepVars, bookingsPage, form, router>>

\* the status cell of the row is rendered
RenderPill ==
    /\ row.pill = NotRendered
    /\ row' = [row EXCEPT !.pill = StatusPill(row.status)]
    /\ UNCHANGED <<tokenVars, guardVars, stepVars, bookingsPage, form, router>>

\* the action cell of the row is rendered
RenderActionCell ==
    /\ row.actionCell = "<not rendered>"
    /\ row' = [row EXCEPT !.actionCell = ActionCell(row.status)]
    /\ UNCHANGED <<tokenVars, guardVars, stepVars, bookingsPage, form, router>>

StatusNext ==
    \/ NormalizeRow
    \/ RenderPill
    \/ RenderActionCell

\* no table row is rendered
StatusAbsent == row = [status |-> NullStatus]

(***************************************************************************)
(* The role-based redirects of the two route tables (unnamed/part_003 and  *)
(* App.tsx): PostLoginRedirect, the admin redirect of DashboardPage and    *)
(* the guard on /admin.  A navigation mounts the element of the new path,  *)
(* whose effect may navigate again.                                        *)
(***************************************************************************)
RouteTables == {"part_003", "App"}
\* the paths a visit may start at
EntryPaths == {"/", "/login", "/post-login", "/dashboard", "/admin"}
MaxRedirects == 4

\* PostLoginRedirect's effect: the path it navigates to, or NoNav
PostLoginRedirect(loaded, u) ==
    IF ~loaded THEN NoNav
    ELSE IF u = NoUser THEN "/login"
    ELSE IF u = "admin" THEN "/admin"
    ELSE "/dashboard"

\* DashboardPage's first effect, isSignedIn being the presence of a user
DashboardPage(loaded, u) ==
    IF loaded /\ u # NoUser /\ u = "admin" THEN "/admin" ELSE NoNav

\* the element of /admin in each route table
AdminRoute(table, loaded, u) ==
    IF table = "part_003"
    THEN ProtectedRouteEffect(loaded, u, "ADMIN", "/dashboard")
    ELSE IF ~loaded \/ u = NoUser THEN NoNav
    ELSE RoleBasedRouteEffect(loaded, u, "admin", "/dashboard")

\* the navigation the element mounted at a path performs, or NoNav
RouteRedirect(table, path, loaded, u) ==
    IF path = "/post-login" /\ table = "part_003" THEN PostLoginRedirect(loaded, u)
    ELSE IF path = "/dashboard" /\ loaded /\ u # NoUser THEN DashboardPage(loaded, u)
    ELSE IF path = "/admin" THEN AdminRoute(table, loaded, u)
    ELSE NoNav

RouterInit ==
    router \in [table : RouteTables,
                isLoaded : {FALSE},
                user : {NoUser},
                path : EntryPaths,
                visited : {<<p>> : p \in EntryPaths},
                effect : {"pending"}]
    /\ router.visited = <<router.path>>

\* the identity provider finishes loading: the mounted element renders again
\* and its effect is due
IdentityLoaded(u) ==
    /\ ~router.isLoaded
    /\ router.effect = "done"
    /\ router' = [router EXCEPT !.isLoaded = TRUE, !.user = u,
                                !.effect = "pending"]
    /\ UNCHANGED <<tokenVars, guardVars, stepVars, bookingsPage, form, row>>

\* sign-in, sign-out or a change of the role metadata; the paths visited are
\* counted anew for the new identity
IdentityChanged(u) ==
    /\ router.isLoaded
    /\ router.effect = "done"
    /\ u # router.user
    /\ router' = [router EXCEPT !.user = u, !.visited = <<router.path>>,
                                !.effect = "pending"]
    /\ UNCHANGED <<tokenVars, guardVars, stepVars, bookingsPage, form, row>>

\* the effect of the mounted element runs; if it navigates, the element of
\* the new path is mounted and its effect is due
RunEffect ==
    /\ router.effect = "pending"
    /\ Len(router.visited) <= MaxRedirects
    /\ LET target == RouteRedirect(router.table, router.path, router.isLoaded,
                                   router.user)
       IN  router' = IF target = NoNav
                     THEN [router EXCEPT !.effect = "done"]
                     ELSE [router EXCEPT !.path = target,
                                         !.visited = Append(@, target)]
    /\ UNCHANGED <<tokenVars, guardVars, stepVars, bookingsPage, form, row>>

RouterNext ==
    \/ \E u \in UserValues \cup {NoUser} : IdentityLoaded(u)
    \/ \E u \in UserValues \cup {NoUser} : IdentityChanged(u)
    \/ RunEffect

\* no router is exercised
RouterAbsent == router = [path |-> "/"]

PagesAbsent == BookingsAbsent /\ FormsAbsent /\ StatusAbsent /\ RouterAbsent

(***************************************************************************)
(* Specifications.                                                         *)
(***************************************************************************)
Init == TokenInit /\ GuardAbsent /\ StepsIdle /\ PagesAbsent
Next == TokenNext
Spec == Init /\ [][Next]_vars

InitGuard == TokenInit /\ GuardInit /\ StepsIdle /\ PagesAbsent
NextGuard == GuardNext
SpecGuard == InitGuard /\ [][NextGuard]_vars

InitSteps == TokenInit /\ GuardAbsent /\ StepsIdle /\ PagesAbsent
NextSteps == StepsNext
SpecSteps == InitSteps /\ [][NextSteps]_vars

InitBookings ==
    TokenInit /\ GuardAbsent /\ StepsIdle /\ BookingsInit /\ FormsAbsent /\ StatusAbsent
        /\ RouterAbsent
NextBookings == BookingsNext
SpecBookings == InitBookings /\ [][NextBookings]_vars

InitForms ==
    TokenInit /\ GuardAbsent /\ StepsIdle /\ BookingsAbsent /\ FormsInit /\ StatusAbsent
        /\ RouterAbsent
NextForms == FormsNext
SpecForms == InitForms /\ [][NextForms]_vars

InitStatus ==
    TokenInit /\ GuardAbsent /\ StepsIdle /\ BookingsAbsent /\ FormsAbsent /\ StatusInit
        /\ RouterAbsent
NextStatus == StatusNext
SpecStatus == InitStatus /\ [][NextStatus]_vars

InitRouter ==
    TokenInit /\ GuardAbsent /\ StepsIdle /\ BookingsAbsent /\ FormsAbsent
        /\ StatusAbsent /\ RouterInit
NextRouter == RouterNext
SpecRouter == InitRouter /\ [][NextRouter]_vars

(***************************************************************************)
(* Properties of the shared token cache (checked under Spec).              *)
(***************************************************************************)
\* the cache as getSharedToken finds it: a token with an expiry beyond the margin
CacheFresh ==
    /\ Truthy(sharedToken)
    /\ Truthy(tokenExpiry)
    /\ tokenExpiry > now + Margin

Subscribed == {c \in Consumers : mounted[c] = "subscribed"}

RefreshDone == last.op = "settled" /\ ~last.error

\* C1: a getSharedToken call that finds no token, no expiry, or an expiry
\* <= now + 300 never returns from the cache: it sends a request to the
\* identity provider, and when that request yields a token the caller gets
\* exactly that token.
C1_StaleCacheIsRefreshed ==
    [][ /\ (last'.op = "getSharedToken" /\ ~CacheFresh)
           => /\ last'.requested
              /\ last'.ret = Null
              /\ \E c \in Consumers : inflight' = [inflight EXCEPT ![c] = @ + 1]
        /\ (last'.op = "settled" /\ ~last'.rejected /\ Truthy(last'.fetched))
           => /\ ~last'.error
              /\ last'.ret = last'.fetched
      ]_vars

\* a call found a token cached whose expiry is exactly now + 300 and sent a
\* request instead of returning it
C1_Witness ==
    /\ last.op = "getSharedToken"
    /\ last.requested
    /\ Truthy(sharedToken)
    /\ tokenExpiry = now + Margin

\* C2: a getSharedToken call that finds a token cached with expiry > now + 300
\* returns that token, sends no request, and leaves the cache, every
\* consumer's state and the set of pending requests as they were.
C2_FreshCacheIsServed ==
    [][ (last'.op = "getSharedToken" /\ CacheFresh)
        => /\ last'.ret = sharedToken
           /\ ~last'.requested
           /\ ~last'.error
           /\ last'.notified = {}
           /\ UNCHANGED <<sharedToken, tokenExpiry, tokenListeners, token,
                          isLoading, inflight>>
      ]_vars

\* a call was served from a cache whose expiry is now + 301
C2_Witness ==
    /\ last.op = "getSharedToken"
    /\ ~last.requested
    /\ last.ret = sharedToken
    /\ Truthy(sharedToken)
    /\ tokenExpiry = now + Margin + 1

\* C3: after every successful refresh the cache holds the fetched token with
\* the expiry decoded from that token, every subscribed listener has been
\* invoked (its consumer holds the new token) and the new token is returned.
C3_RefreshStoresTokenAndItsExpiry ==
    RefreshDone =>
        /\ sharedToken = last.fetched
        /\ tokenExpiry = PayloadExp(sharedToken)
        /\ last.notified = Subscribed
        /\ \A c \in Subscribed : token[c] = sharedToken
        /\ last.ret = last.fetched

C5_ClearEmptiesCacheForAll ==
    last.op = "clearToken" =>
        /\ sharedToken = Null
        /\ tokenExpiry = Null
        /\ \A c \in Subscribed : token[c] = Null

\* clearToken ran while two consumers, so one besides the caller, were
\* subscribed
C5_Witness ==
    /\ last.op = "clearToken"
    /\ Cardinality(Subscribed) >= 2
    /\ \A c \in Subscribed : token[c] = Null

\* C6: every change of the cached token (a successful refresh, a clearToken)
\* invokes the listeners of exactly the consumers subscribed at that moment:
\* each of them then holds the cached value, and no consumer whose
\* registration was revoked by its unmount is invoked.
C6_ListenersFollowRegistration ==
    (RefreshDone \/ last.op = "clearToken") =>
        /\ last.notified = Subscribed
        /\ \A c \in Subscribed : token[c] = sharedToken
        /\ \A c \in Consumers : mounted[c] = "unmounted" => c \notin last.notified

\* a refresh completed while a consumer that had subscribed and started a
\* call was unmounted again: the subscribed consumers were invoked, it was not
C6_Witness ==
    /\ RefreshDone
    /\ \E c \in Consumers : mounted[c] = "unmounted" /\ inflight[c] > 0
    /\ last.notified # {}
    /\ last.notified = Subscribed

(***************************************************************************)
(* Properties of the route guards (checked under SpecGuard).               *)
(***************************************************************************)
\* the role the guard requires and the fallback it redirects to, with the
\* defaults of the props applied
RequiredRoleInForce == IF requiredRole = Omitted THEN "admin" ELSE requiredRole
FallbackInForce == IF redirectTo = Omitted THEN "/dashboard" ELSE redirectTo

\* the last render saw the current identity / its effect has run as well
RenderCurrent == phase \in {"effectPending", "idle", "left"}
EffectDone == phase \in {"idle", "left"}

WrongRole == isLoaded /\ user # NoUser /\ user # RequiredRoleInForce

GuardRejects ==
    /\ RenderCurrent => view # "children"
    /\ EffectDone => /\ navigations = <<FallbackInForce>>
                     /\ location = FallbackInForce

\* C8 as stated: for every requiredRole, a signed-in user whose role differs
\* from it is never shown the children and is redirected exactly once, to
\* the fallback path.
C8_AsStated == WrongRole => GuardRejects

\* C8, amended: the same for every requiredRole of RoleBasedRoute and every
\* non-empty requiredRole of ProtectedRoute.
C8_WrongRoleIsRedirectedOnce ==
    (WrongRole /\ ~(guardKind = "ProtectedRoute" /\ requiredRole = ""))
        => GuardRejects

\* a STUDENT was redirected by the guard requiring ADMIN
C8_Witness ==
    /\ guardKind = "ProtectedRoute"
    /\ requiredRole = "ADMIN"
    /\ user = "STUDENT"
    /\ isLoaded
    /\ phase = "left"
    /\ view = "nothing"
    /\ navigations = <<"/dashboard">>

\* C9: once identity is resolved with nobody signed in, the guard never
\* shows the children and its one redirect goes to "/login", whatever
\* requiredRole and redirectTo are.
C9_SignedOutGoesToLogin ==
    (isLoaded /\ user = NoUser) =>
        /\ RenderCurrent => view # "children"
        /\ EffectDone => /\ navigations = <<"/login">>
                         /\ location = "/login"

\* a signed-out visitor was sent to /login by a guard whose fallback is "/"
C9_Witness ==
    /\ guardKind = "RoleBasedRoute"
    /\ redirectTo = "/"
    /\ requiredRole = "STUDENT"
    /\ isLoaded
    /\ user = NoUser
    /\ phase = "left"
    /\ navigations = <<"/login">>

\* C10: once identity is resolved with a user whose role equals
\* requiredRole, the guard renders its children and issues no redirect.
C10_MatchingRoleSeesChildren ==
    (isLoaded /\ user # NoUser /\ user = RequiredRoleInForce /\ RenderCurrent) =>
        /\ view = "children"
        /\ navigations = <<>>
        /\ location = GuardedPath
        /\ phase # "left"

\* an ADMIN is shown the children of the guard requiring ADMIN, effect run
C10_Witness ==
    /\ guardKind = "ProtectedRoute"
    /\ requiredRole = "ADMIN"
    /\ user = "ADMIN"
    /\ isLoaded
    /\ phase = "idle"
    /\ view = "children"
    /\ navigations = <<>>

(***************************************************************************)
(* Properties of the cache writes (checked under SpecSteps).               *)
(***************************************************************************)
\* the cache is between the two writes of one mutation
HalfUpdated == pc # "idle"

\* C7: every mutation of the cache is uninterrupted: once a refresh has
\* written tokenExpiry, or a clearToken has reset sharedToken, the next
\* step other than the clock's is the same handler's second write, which
\* completes the mutation; no other handler starts or resumes on a
\* half-updated cache.
C7_MutationsAreUninterrupted ==
    [][ (HalfUpdated /\ now' = now)
        => /\ running # 0
           /\ running' = 0
           /\ last'.op \in {"settled", "clearToken"}
           /\ ~HalfUpdated'
      ]_vars

\* a refresh stands between its two writes while another consumer has a
\* request in flight and a third handler could be started
C7_Witness ==
    /\ pc = "refresh:cache"
    /\ running # 0
    /\ tokenExpiry = PayloadExp(newTokenLocal)
    /\ sharedToken # newTokenLocal
    /\ \E c \in Consumers : c # running /\ inflight[c] > 0 /\ mounted[c] = "subscribed"

(***************************************************************************)
(* C11: while the identity provider has not finished loading (isLoaded is  *)
(* false) the guard has rendered nothing but its placeholder, has issued   *)
(* no navigation and is still on the guarded route; its effect and its     *)
(* render give that answer for every user and role value they could be     *)
(* handed.                                                                 *)
(***************************************************************************)
C11_LoadingShowsPlaceholderOnly ==
    ~isLoaded =>
        /\ view \in {"none", "placeholder"}
        /\ RenderCurrent => view = "placeholder"
        /\ navigations = <<>>
        /\ location = GuardedPath
        /\ \A u \in UserValues \cup {NoUser} :
              /\ GuardEffect(guardKind, FALSE, u, requiredRole, redirectTo) = NoNav
              /\ GuardView(guardKind, FALSE, u, requiredRole) = "placeholder"

\* an unloaded guard whose render and effect have both run
C11_Witness ==
    /\ ~isLoaded
    /\ phase = "idle"
    /\ view = "placeholder"
    /\ navigations = <<>>

(***************************************************************************)
(* C12: the status a bookings page holds for a booking only moves forward  *)
(* along PENDING -> ACCEPTED -> COMPLETED, whatever is clicked and in      *)
(* whatever order the responses arrive; a booking in any other status      *)
(* (CANCELLED among them) keeps its status.                                *)
(***************************************************************************)
Rank(status) ==
    IF normalizeStatus(status) = SessionStatus("PENDING") THEN 1
    ELSE IF normalizeStatus(status) = SessionStatus("ACCEPTED") THEN 2
    ELSE IF normalizeStatus(status) = SessionStatus("COMPLETED") THEN 3
    ELSE 0

C12_StatusMovesForwardOnly ==
    [][\A b \in DOMAIN bookingsPage.bookings \cap DOMAIN bookingsPage'.bookings :
          IF Rank(bookingsPage.bookings[b]) = 0
          THEN bookingsPage'.bookings[b] = bookingsPage.bookings[b]
          ELSE Rank(bookingsPage'.bookings[b]) >= Rank(bookingsPage.bookings[b])]_vars

\* the requests a submission has sent to one endpoint, in order
RequestsTo(endpoint) == SelectSeq(form.requests, LAMBDA r : r.endpoint = endpoint)

AllOk(reqs) == \A i \in DOMAIN reqs : reqs[i].outcome = "ok"

(***************************************************************************)
(* C13: a mentor submission sends its POST /academic/mentor requests one   *)
(* per selected class, in the order of selection: the i-th request names   *)
(* the i-th selected class, all carry the submitted personal fields and    *)
(* the same image, no two name the same class; the submission ends in      *)
(* success exactly when all N requests were sent and answered ok.          *)
(***************************************************************************)
C13_OnePostPerSelectedClass ==
    (form.kind = "mentor" /\ form.pc # "editing") =>
        LET posts == RequestsTo("mentor")
            N == Len(form.formData.selectedClasses)
        IN  /\ Len(posts) <= N
            /\ \A i \in DOMAIN posts :
                 /\ posts[i].body.class_room_id = form.formData.selectedClasses[i]
                 /\ posts[i].body.clerk_mentor_id = form.formData.personal
            /\ \A i, j \in DOMAIN posts :
                 i # j => /\ posts[i].body.class_room_id # posts[j].body.class_room_id
                          /\ posts[i].body.mentor_image = posts[j].body.mentor_image
            /\ form.toast = "success" => Len(posts) = N /\ AllOk(posts)
            /\ (form.pc = "done" /\ Len(posts) = N /\ AllOk(posts))
                  => form.toast = "success"

\* a mentor created for two or more classes
C13_Witness ==
    /\ form.kind = "mentor"
    /\ form.pc = "done"
    /\ form.toast = "success"
    /\ Len(RequestsTo("mentor")) >= 2
    /\ Len(RequestsTo("mentor")) = Len(form.formData.selectedClasses)

(***************************************************************************)
(* C14: when the POST for a class of a mentor submission fails, it is the  *)
(* last request of the submission: the POSTs before it were answered ok,   *)
(* nothing is sent after it (no POST for the remaining classes, no request *)
(* undoing the earlier ones), the fields keep the submitted values and the *)
(* error toast is shown.                                                   *)
(***************************************************************************)
C14_FailedPostStopsTheLoop ==
    form.kind = "mentor" =>
        \A k \in DOMAIN form.requests :
            (form.requests[k].endpoint = "mentor"
                /\ form.requests[k].outcome \in {"http", "rejected"}) =>
                /\ k = Len(form.requests)
                /\ \A j \in 1..(k - 1) :
                     /\ form.requests[j].endpoint \in {"upload", "mentor"}
                     /\ form.requests[j].endpoint = "mentor" => form.requests[j].outcome = "ok"
                /\ Len(RequestsTo("mentor")) <= Len(form.formData.selectedClasses)
                /\ form.pc = "done"
                /\ form.toast = "error"
                /\ ~form.reset
                /\ form.fields = form.formData

\* the POST for the second or a later class failed after the earlier ones
\* had succeeded
C14_Witness ==
    /\ form.kind = "mentor"
    /\ form.pc = "done"
    /\ Len(RequestsTo("mentor")) >= 2
    /\ form.requests[Len(form.requests)].outcome = "http"
    /\ form.toast = "error"

(***************************************************************************)
(* C15: a create-class submission whose name is empty or consists of       *)
(* white space only makes no network call at all: no token is asked for    *)
(* and no request is sent.                                                 *)
(***************************************************************************)
C15_BlankNameSendsNothing ==
    (form.kind # "mentor" /\ form.pc # "editing" /\ trim(form.formData.name) = <<>>) =>
        /\ form.tokenCalls = 0
        /\ form.requests = <<>>

(***************************************************************************)
(* C16: a create-class submission with a valid name and an image larger    *)
(* than 5MB sends neither POST /files/upload nor POST /academic/classroom. *)
(***************************************************************************)
C16_OversizedImageSendsNothing ==
    (/\ form.kind # "mentor"
     /\ form.pc # "editing"
     /\ Len(trim(form.formData.name)) >= 3
     /\ form.formData.image.size > MAX_FILE_SIZE) =>
        /\ RequestsTo("upload") = <<>>
        /\ RequestsTo("classroom") = <<>>

(***************************************************************************)
(* C17: a submission that asked for a token and then ended without        *)
(* success (no token, an HTTP error status, a rejected fetch: the form was *)
(* not reset) has shown the error toast.                                   *)
(***************************************************************************)
C17_FailuresEndInErrorToast ==
    (form.pc = "done" /\ form.tokenCalls > 0 /\ ~form.reset) => form.toast = "error"

(***************************************************************************)
(* C18: a finished create-class submission has shown success and reset     *)
(* the form exactly when its POST /academic/classroom was answered with a  *)
(* 2xx status.                                                             *)
(***************************************************************************)
C18_SuccessOnlyAfterOkResponse ==
    (form.kind # "mentor" /\ form.pc = "done") =>
        LET posts == RequestsTo("classroom")
            ok == posts # <<>> /\ posts[Len(posts)].outcome = "ok"
        IN  /\ (form.toast = "success" \/ form.reset) => ok
            /\ ok => (form.toast = "success" /\ form.reset)

CanonicalWords == {"PENDING", "ACCEPTED", "COMPLETED", "CANCELLED"}

(***************************************************************************)
(* C19: a status that spells a canonical status S, in whatever letter case *)
(* (the enum value SessionStatus.S among them), is normalized to           *)
(* SessionStatus.S.                                                        *)
(***************************************************************************)
C19_LetterCaseIsIgnored ==
    (/\ row.normalized # NotComputed
     /\ isString(row.status)
     /\ row.status.word \in CanonicalWords) =>
        row.normalized = SessionStatus(row.status.word)

(***************************************************************************)
(* C20: whatever the raw status, normalizeStatus yields one of the four    *)
(* canonical statuses or null; a status spelling "cancelled" in any letter *)
(* case yields CANCELLED.                                                  *)
(***************************************************************************)
C20_ResultIsCanonicalOrNull ==
    row.normalized # NotComputed =>
        /\ row.normalized \in {SessionStatus(w) : w \in CanonicalWords} \cup {NullStatus}
        /\ (isString(row.status) /\ row.status.word = "CANCELLED")
              => row.normalized = SessionStatus("CANCELLED")

\* a string that spells none of the three statuses the table advances
Unrecognized(status) ==
    isString(status) /\ status.word \notin {"PENDING", "ACCEPTED", "COMPLETED"}

(***************************************************************************)
(* C21: a null or undefined status is rendered as the gray "Unknown"       *)
(* badge; a string that is not PENDING, ACCEPTED or COMPLETED in any       *)
(* letter case gets the gray badge, labelled with the string itself        *)
(* capitalized (or "Unknown" when it is empty), is not normalized to one   *)
(* of the three statuses and is offered no Approve / Complete / Completed  *)
(* action.                                                                 *)
(***************************************************************************)
C21_UnknownStaysNeutral ==
    /\ (row.pill # NotRendered /\ row.status \in {NullStatus, UndefinedStatus}) =>
          row.pill = [label |-> Str("UNKNOWN", "capitalized"), style |-> "gray"]
    /\ (row.pill # NotRendered /\ Unrecognized(row.status)) =>
          /\ row.pill.style = "gray"
          /\ row.pill.label = IF row.status = EmptyStatus
                              THEN Str("UNKNOWN", "capitalized")
                              ELSE capitalize(row.status)
    /\ (row.normalized # NotComputed /\ Unrecognized(row.status)) =>
          row.normalized \notin {SessionStatus(w) : w \in {"PENDING", "ACCEPTED", "COMPLETED"}}
    /\ (row.actionCell # "<not rendered>" /\ Unrecognized(row.status)) =>
          row.actionCell \notin {"Approve", "Complete", "Completed"}

\* a row whose status is "expired" has been rendered in full
C21_Witness ==
    /\ row.status = Str("EXPIRED", "lower")
    /\ row.pill = [label |-> Str("EXPIRED", "capitalized"), style |-> "gray"]
    /\ row.normalized # NotComputed
    /\ row.actionCell = ""

(***************************************************************************)
(* C22: whatever the role of the signed-in user, the redirects never lead  *)
(* back to a path already visited under that identity: following them ends *)
(* at a page that redirects no further.                                    *)
(***************************************************************************)
C22_NoRedirectCycle ==
    \A i, j \in DOMAIN router.visited :
        i < j => router.visited[i] # router.visited[j]

(***************************************************************************)
(* C23: a refresh that resumes directly after clearToken, and so was       *)
(* suspended at the identity-provider request when clearToken ran, leaves  *)
(* the cache empty and hands no subscriber a token.                        *)
(***************************************************************************)
C23_ClearOutlastsInFlightRefresh ==
    [][(last.op = "clearToken" /\ last'.op = "settled") =>
          /\ sharedToken' = Null
          /\ tokenExpiry' = Null
          /\ \A c \in tokenListeners : token'[c] = Null]_vars

(***************************************************************************)
(* C24: in every state the cache is either empty (no token, no expiry) or  *)
(* holds a token together with the exp claim of that very token.           *)
(***************************************************************************)
C24_ExpiryBelongsToToken ==
    \/ sharedToken = Null /\ tokenExpiry = Null
    \/ Truthy(sharedToken) /\ tokenExpiry = PayloadExp(sharedToken)

(***************************************************************************)
(* C25: the step in which a getSharedToken call fails (the provider        *)
(* yielded no token, or its request rejected) changes neither the cached   *)
(* token nor the cached expiry, invokes no listener and changes no         *)
(* consumer's token, and leaves the caller's isLoading false.              *)
(***************************************************************************)
C25_FailedRefreshChangesNothing ==
    [][(last'.op = "settled" /\ last'.error) =>
          /\ sharedToken' = sharedToken
          /\ tokenExpiry' = tokenExpiry
          /\ last'.notified = {}
          /\ token' = token
          /\ \E c \in Consumers :
                /\ inflight'[c] = inflight[c] - 1
                /\ isLoading'[c] = FALSE]_vars

\* a refresh has just failed while the cache holds a token and another
\* consumer is subscribed
C25_Witness ==
    /\ last.op = "settled"
    /\ last.error
    /\ Truthy(sharedToken)
    /\ tokenExpiry = PayloadExp(sharedToken)
    /\ Cardinality(tokenListeners) >= 2

(***************************************************************************)
(* C26: on the API-backed page the loaded bookings list changes only in    *)
(* the step in which the PUT of an updateBookingStatus call is answered    *)
(* OK, and then only the booking of that call changes, to the status the   *)
(* call asked for; a missing token, a non-OK answer or a rejected request  *)
(* leave the list as it was.                                               *)
(***************************************************************************)
C26_OnlyAnOkPutChangesItsBooking ==
    [][(/\ bookingsPage.kind = "api"
        /\ ~bookingsPage.isLoading
        /\ bookingsPage'.bookings # bookingsPage.bookings) =>
          \E i \in DOMAIN bookingsPage.updateCalls :
             LET call == bookingsPage.updateCalls[i]
             IN  /\ call.at = "fetch"
                 /\ bookingsPage'.updateCalls = RemoveAt(bookingsPage.updateCalls, i)
                 /\ bookingsPage'.toast = "success"
                 /\ bookingsPage'.bookings[call.bookingId] = call.newStatus
                 /\ \A b \in DOMAIN bookingsPage.bookings :
                       b # call.bookingId =>
                          bookingsPage'.bookings[b] = bookingsPage.bookings[b]]_vars

\* an update of booking 1 was answered OK while booking 2 is still pending
C26_Witness ==
    /\ bookingsPage.kind = "api"
    /\ bookingsPage.toast = "success"
    /\ bookingsPage.bookings[1] = SessionStatus("ACCEPTED")
    /\ normalizeStatus(bookingsPage.bookings[2]) = SessionStatus("PENDING")

(***************************************************************************)
(* C27: a submission that passed validation, made by a user the /admin     *)
(* guard of the route table admits (ProtectedRoute requiredRole="ADMIN"),  *)
(* is not stopped by a role check of the form: it goes on to ask for a     *)
(* token.                                                                  *)
(***************************************************************************)
C27_GuardAdmittedPassesFormRoleCheck ==
    (/\ form.pc \notin {"editing", "invalid"}
     /\ ProtectedRouteView(form.isLoaded, form.user, "ADMIN") = "children"
     /\ form.kind # "mentor" => trim(form.formData.name) # <<>>) =>
        form.tokenCalls > 0

\* the guard component that is not the one mounted
OtherGuard ==
    IF guardKind = "ProtectedRoute" THEN "RoleBasedRoute" ELSE "ProtectedRoute"

\* what the mounted guard rendered and where it navigated is what the code
\* of the other guard yields for the same isLoaded, user, requiredRole and
\* redirectTo
GuardsAgree ==
    /\ RenderCurrent =>
          (view = "children"
              <=> GuardView(OtherGuard, isLoaded, user, requiredRole) = "children")
    /\ phase = "idle" =>
          GuardEffect(OtherGuard, isLoaded, user, requiredRole, redirectTo) = NoNav
    /\ phase = "left" =>
          /\ navigations # <<>>
          /\ navigations[Len(navigations)] =
                GuardEffect(OtherGuard, isLoaded, user, requiredRole, redirectTo)

\* C28 as stated: the two guards decide alike for every requiredRole both
\* accept, the empty string among them.
C28_AsStated == requiredRole # Omitted => GuardsAgree

(***************************************************************************)
(* C28, amended: for every non-empty requiredRole, ProtectedRoute and      *)
(* RoleBasedRoute redirect to the same path or not at all and render the   *)
(* children in the same cases, whatever isLoaded, the user, the user's     *)
(* role and redirectTo are.                                                *)
(***************************************************************************)
C28_GuardsAgreeOnNonEmptyRole ==
    (requiredRole # Omitted /\ requiredRole # "") => GuardsAgree

\* RoleBasedRoute requiring ADMIN has sent an "admin" user to the fallback
C28_Witness ==
    /\ guardKind = "RoleBasedRoute"
    /\ requiredRole = "ADMIN"
    /\ user = "admin"
    /\ isLoaded
    /\ phase = "left"
    /\ view = "accessDenied"
    /\ navigations = <<FallbackInForce>>

(***************************************************************************)
(* C29: on the mock page, every booking with a status update in flight has *)
(* its action button disabled (it is the booking shown as updating), and   *)
(* no booking has two updates in flight.                                   *)
(***************************************************************************)
C29_OneUpdatePerBookingInFlight ==
    bookingsPage.kind = "mock" =>
        /\ \A i \in DOMAIN bookingsPage.updateCalls :
              bookingsPage.updatingBooking = bookingsPage.updateCalls[i].bookingId
        /\ \A i, j \in DOMAIN bookingsPage.updateCalls :
              i # j => bookingsPage.updateCalls[i].bookingId
                          # bookingsPage.updateCalls[j].bookingId

\* a backend field that carries no status
NoStatus == {NullStatus, UndefinedStatus, EmptyStatus}

(***************************************************************************)
(* C30: on the API-backed page every fetched booking has a non-empty       *)
(* status, so its action cell never reads "Status Unknown", after any      *)
(* fetch and any updates; a session whose backend record carries no status *)
(* is given PENDING, shown as the Pending badge and offered Approve.       *)
(***************************************************************************)
C30_FetchedStatusIsNeverEmpty ==
    /\ (bookingsPage.kind = "api" /\ ~bookingsPage.isLoading) =>
          \A b \in DOMAIN bookingsPage.bookings :
             /\ ~Falsy(bookingsPage.bookings[b])
             /\ ~Falsy(normalizeStatus(bookingsPage.bookings[b]))
             /\ ActionCell(bookingsPage.bookings[b]) # "Status Unknown"
    /\ \A s, t \in NoStatus :
          /\ processedStatus(s, t) = SessionStatus("PENDING")
          /\ StatusPill(processedStatus(s, t)).label = Str("PENDING", "capitalized")
          /\ ActionCell(processedStatus(s, t)) = "Approve"
          /\ ButtonOf("api", processedStatus(s, t)) = SessionStatus("ACCEPTED")

\* bookings were fetched, one is pending and another has been updated since
C30_Witness ==
    /\ bookingsPage.kind = "api"
    /\ ~bookingsPage.isLoading
    /\ bookingsPage.bookings # <<>>
    /\ bookingsPage.bookings[1] = SessionStatus("PENDING")
    /\ bookingsPage.bookings[2] = SessionStatus("COMPLETED")
    /\ bookingsPage.toast = "success"

====
